---- MODULE Spec2Model ----
(***************************************************************************)
(* Model of src/profiling/memory/client_ext_static.cc: the bootstrap that  *)
(* forks the private heapprofd daemon (ForkHeapprofd), the monitor thread  *)
(* of the profiled process (MonitorFd), the per-session descriptor hand-   *)
(* off (ConstructClient) and the daemon's control-channel handler.         *)
(*                                                                         *)
(* Processes: the profiled process ("parent"), the immediate child of      *)
(* fork() and the process daemon() leaves running the child path.          *)
(* Descriptors of the child path are modelled by number, because lines     *)
(* 104-116 act on numbers (dup2 onto 0 and 1, close of 3..511).            *)
(***************************************************************************)
EXTENDS Integers, Sequences, FiniteSets, TLC

\* ---------------------------------------------------------------- bounds
NumCallers == 2      \* ConstructClient calls (one per calling thread)
MaxCallbacks == 2    \* data-source callbacks the backend triggers
NumFds == 6          \* descriptor numbers 0..NumFds-1 are modelled one by one
MaxRetries == 1      \* failed attempts to connect to the backend

\* ------------------------------------------------------ program constants
STDIN_FILENO == 0
STDOUT_FILENO == 1
STDERR_FILENO == 2
FdCeiling == 512     \* the close scan of line 113 stops below this number

Callers == 1..NumCallers
LowFds == 0..(NumFds - 1)
\* FdCeiling stands for a descriptor whose number the scan does not reach.
FdSet == LowFds \cup {FdCeiling}
NoFd == -1

\* What a descriptor number refers to in the process on the child path:
\*   "none" closed, "tty" what the profiled process had as stdio,
\*   "file" another descriptor of the profiled process,
\*   "cli"/"srv" the two endpoints of the control channel, "null" /dev/null.

VARIABLES
  parentAlive,   \* the profiled process has not exited
  pcMain,        \* position of the thread running ForkHeapprofd
  gClientSock,   \* g_client_sock: "unset", "invalid" (no fd) or "valid"
  fds,           \* descriptor table of the process that runs lines 75-143:
                 \* the profiled process up to fork(), its child afterwards
  cliFd, srvFd,  \* cli_sock.fd() and srv_sock.fd() (numbers), NoFd if none
  pHoldsCli,     \* the profiled process holds the client endpoint open
  pHoldsSrv,     \* the profiled process holds the server endpoint open
  chProc,        \* who runs the child path: "none", "imm" (fork's child) or
                 \* "grand" (the process daemon() forked)
  immExited,     \* the immediate child of fork() has exited
  dPc,           \* position of the child path
  backend,       \* producer's connection: "none", "connecting", "connected"
  nCallbacks,    \* data-source callbacks fired so far
  d2p,           \* control channel, daemon -> profiled process (in flight)
  p2d,           \* control channel, profiled process -> daemon (in flight)
  pSockErr,      \* pending socket error on the profiled process's endpoint
  dSockErr,      \* pending socket error on the daemon's endpoint
  dBytes,        \* marker bytes the daemon handler has received
  dLog,          \* last line the handler of the control-channel watch logged
  nRetries,      \* failed attempts of the producer to connect to the backend
                 \* since it was last connected
  mPc,           \* MonitorFd thread: "none", "recv", "exited"
  mLog,          \* last line MonitorFd logged
  initSessions,  \* calls of heapprofd_init_session made by MonitorFd
  mReceived,     \* marker bytes MonitorFd received
  sPc,           \* per ConstructClient call: position
  sLate,         \* per call: it started after the daemon process had exited
  sResult,       \* per call: "none", "null" or "client"
  sendRes,       \* per call: result of g_client_sock->Send: "none","ok","fail"
  pSrvFd,        \* per call: srv_fd (ScopedFile) holds the daemon-bound end
  pCliSock,      \* per call: the profiled process holds the retained end
  dSess,         \* per call: the daemon holds the descriptor it received
  adopted,       \* per call: descriptors handed to AdoptSocket
  reply          \* per call: the daemon answered the handshake

bootVars == <<pcMain, gClientSock, fds, cliFd, srvFd, pHoldsCli, pHoldsSrv,
              chProc, immExited>>
daemonVars == <<dPc, backend, nCallbacks, dBytes, dLog, nRetries>>
chanVars == <<d2p, p2d, pSockErr, dSockErr>>
monVars == <<mPc, mLog, initSessions, mReceived>>
sessVars == <<sPc, sLate, sResult, sendRes, pSrvFd, pCliSock, dSess,
              adopted, reply>>
vars == <<parentAlive, bootVars, daemonVars, chanVars, monVars, sessVars>>

\* ------------------------------------------------------------- helpers
Min(S) == CHOOSE x \in S : \A y \in S : x <= y

FreeFds(tab) == {fd \in LowFds : tab[fd] = "none"}

\* The kernel gives the lowest free descriptor number (open, socketpair).
LowestFree(tab) == IF FreeFds(tab) = {} THEN NoFd ELSE Min(FreeFds(tab))

CloseFd(tab, fd) == IF fd \in FdSet THEN [tab EXCEPT ![fd] = "none"] ELSE tab

\* dup2(old, new): new refers to what old refers to; fails on a bad old.
Dup2(tab, old, new) ==
  IF old \in FdSet /\ tab[old] # "none" THEN [tab EXCEPT ![new] = tab[old]]
  ELSE tab

\* The process on the child path is running.
ChildAlive == chProc # "none" /\ dPc # "exited"

ChildHolds(tab, obj) == \E fd \in FdSet : tab[fd] = obj

\* Some process holds the server (daemon-side) endpoint of the control channel.
SrvOpen ==
  (parentAlive /\ pHoldsSrv) \/ (ChildAlive /\ ChildHolds(fds, "srv"))

\* Some process holds the client (profiled-process-side) endpoint.
CliOpen ==
  (parentAlive /\ pHoldsCli) \/ (ChildAlive /\ ChildHolds(fds, "cli"))

\* The descriptor of call t is in a message the daemon has not received yet.
InFlight(t) == \E i \in 1..Len(p2d) : p2d[i].fd = t

\* srv_sock in the daemon still refers to the control channel.
DaemonSockIsSrv == srvFd \in FdSet /\ fds[srvFd] = "srv"

\* Descriptor tables a process can start with: each of stdin, stdout, stderr
\* open or closed, one more descriptor at 3 and one beyond the scan.
StartTables ==
  {[fd \in FdSet |->
      IF fd \in std THEN "tty"
      ELSE IF fd \in {STDERR_FILENO + 1, FdCeiling} THEN "file"
      ELSE "none"] :
    std \in SUBSET {STDIN_FILENO, STDOUT_FILENO, STDERR_FILENO}}

\* A message on the control channel: its bytes (a sequence of characters) and
\* the call whose descriptor travels with it (0: no descriptor).
Msg(b, fd) == [byte |-> b, fd |-> fd]

Init ==
  /\ parentAlive = TRUE
  /\ pcMain = "start"
  /\ gClientSock = "unset"
  /\ fds \in StartTables
  /\ cliFd = NoFd /\ srvFd = NoFd
  /\ pHoldsCli = FALSE /\ pHoldsSrv = FALSE
  /\ chProc = "none" /\ immExited = FALSE
  /\ dPc = "none" /\ backend = "none" /\ nCallbacks = 0 /\ dBytes = 0
  /\ dLog = "none" /\ nRetries = 0
  /\ d2p = <<>> /\ p2d = <<>> /\ pSockErr = FALSE /\ dSockErr = FALSE
  /\ mPc = "none" /\ mLog = "none" /\ initSessions = 0 /\ mReceived = 0
  /\ sPc = [t \in Callers |-> "idle"]
  /\ sLate = [t \in Callers |-> FALSE]
  /\ sResult = [t \in Callers |-> "none"]
  /\ sendRes = [t \in Callers |-> "none"]
  /\ pSrvFd = [t \in Callers |-> FALSE]
  /\ pCliSock = [t \in Callers |-> FALSE]
  /\ dSess = [t \in Callers |-> FALSE]
  /\ adopted = [t \in Callers |-> 0]
  /\ reply = [t \in Callers |-> FALSE]

\* ------------------------------------------- effects of closing an endpoint
\* The server endpoint is open somewhere after the step.
SrvOpenNext ==
  (parentAlive' /\ pHoldsSrv')
    \/ (chProc' # "none" /\ dPc' # "exited" /\ ChildHolds(fds', "srv"))

\* The client endpoint is open somewhere after the step.
CliOpenNext ==
  (parentAlive' /\ pHoldsCli')
    \/ (chProc' # "none" /\ dPc' # "exited" /\ ChildHolds(fds', "cli"))

\* A step that closes descriptors (and sends nothing): when the last holder of
\* an endpoint goes, what was queued for it is dropped (the descriptors in it
\* are closed with it) and the peer finds a reset pending if anything was
\* unread.
SettleChannel ==
  /\ p2d' = IF SrvOpen /\ ~SrvOpenNext THEN <<>> ELSE p2d
  /\ pSockErr' = (pSockErr \/ (SrvOpen /\ ~SrvOpenNext /\ p2d # <<>>))
  /\ d2p' = IF CliOpen /\ ~CliOpenNext THEN <<>> ELSE d2p
  /\ dSockErr' = (dSockErr \/ (CliOpen /\ ~CliOpenNext /\ d2p # <<>>))

\* ------------------------------------------------ ForkHeapprofd, the parent
\* Lines 68-85: g_client_sock = new UnixSocketRaw(); CreatePair; on failure
\* log and return.
CreateControlPair ==
  /\ parentAlive /\ pcMain = "start"
  /\ gClientSock' = "invalid"
  /\ \E ok \in BOOLEAN :
       LET c == LowestFree(fds)
           s == IF c = NoFd THEN NoFd
                ELSE LowestFree([fds EXCEPT ![c] = "cli"])
       IN IF ok /\ c # NoFd /\ s # NoFd
          THEN /\ fds' = [fds EXCEPT ![c] = "cli", ![s] = "srv"]
               /\ cliFd' = c /\ srvFd' = s
               /\ pHoldsCli' = TRUE /\ pHoldsSrv' = TRUE
               /\ pcMain' = "fork"
          ELSE /\ pcMain' = "returned"
               /\ UNCHANGED <<fds, cliFd, srvFd, pHoldsCli, pHoldsSrv>>
  /\ UNCHANGED <<parentAlive, chProc, immExited, daemonVars, chanVars,
                 monVars, sessVars>>

\* Lines 87-91: fork(); on failure log and return (cli_sock and srv_sock are
\* destroyed, g_client_sock stays without a descriptor).
Fork ==
  /\ parentAlive /\ pcMain = "fork"
  /\ \E ok \in BOOLEAN :
       IF ok
       THEN /\ chProc' = "imm" /\ dPc' = "daemon" /\ pcMain' = "waitpid"
            /\ UNCHANGED <<fds, cliFd, srvFd, pHoldsCli, pHoldsSrv>>
       ELSE /\ pcMain' = "returned"
            /\ fds' = CloseFd(CloseFd(fds, cliFd), srvFd)
            /\ cliFd' = NoFd /\ srvFd' = NoFd
            /\ pHoldsCli' = FALSE /\ pHoldsSrv' = FALSE
            /\ UNCHANGED <<chProc, dPc>>
  /\ UNCHANGED <<parentAlive, gClientSock, immExited, backend, nCallbacks, dBytes, dLog, nRetries, chanVars, monVars, sessVars>>

\* Lines 92-100: waitpid(f) returns once the immediate child has exited; then
\* *g_client_sock = move(cli_sock), the MonitorFd thread is started, and the
\* return destroys srv_sock (the parent's copy of the server endpoint).
WaitpidReturn ==
  /\ parentAlive /\ pcMain = "waitpid"
  /\ immExited
  /\ gClientSock' = "valid"
  /\ mPc' = "recv"
  /\ pcMain' = "returned"
  /\ pHoldsSrv' = FALSE
  /\ UNCHANGED <<parentAlive, fds, cliFd, srvFd, pHoldsCli, chProc, immExited,
                 daemonVars, mLog, initSessions, mReceived, sessVars>>
  /\ SettleChannel

\* ------------------------------------------- ForkHeapprofd, the child path
\* Line 102: daemon(0, 1), return value ignored. On success daemon() forks,
\* the immediate child _exits and the new process goes on; when its fork
\* fails it returns -1 and the immediate child itself goes on.
Daemonize ==
  /\ ChildAlive /\ dPc = "daemon"
  /\ \E ok \in BOOLEAN :
       IF ok THEN chProc' = "grand" /\ immExited' = TRUE
       ELSE UNCHANGED <<chProc, immExited>>
  /\ dPc' = "release"
  /\ UNCHANGED <<parentAlive, pcMain, gClientSock, fds, cliFd, srvFd,
                 pHoldsCli, pHoldsSrv, backend, nCallbacks, dBytes, dLog, nRetries,
                 chanVars, monVars, sessVars>>

\* Line 104: cli_sock.ReleaseFd(); the ScopedFile it returns is a temporary,
\* so the child's copy of the client endpoint is closed.
ReleaseCli ==
  /\ ChildAlive /\ dPc = "release"
  /\ fds' = CloseFd(fds, cliFd)
  /\ cliFd' = NoFd
  /\ dPc' = "redirect"
  /\ UNCHANGED <<parentAlive, pcMain, gClientSock, srvFd, pHoldsCli,
                 pHoldsSrv, chProc, immExited, backend, nCallbacks, dBytes, dLog, nRetries, monVars, sessVars>>
  /\ SettleChannel

\* Lines 107-111: null = open("/dev/null"); dup2(null, 0); dup2(null, 1);
\* if (null > 2) close(null).
RedirectedFds(tab) ==
  LET null == LowestFree(tab)
      t1 == IF null = NoFd THEN tab ELSE [tab EXCEPT ![null] = "null"]
      t2 == Dup2(t1, null, STDIN_FILENO)
      t3 == Dup2(t2, null, STDOUT_FILENO)
  IN IF null > STDERR_FILENO THEN CloseFd(t3, null) ELSE t3

RedirectStdio ==
  /\ ChildAlive /\ dPc = "redirect"
  /\ fds' = RedirectedFds(fds)
  /\ dPc' = "closefds"
  /\ UNCHANGED <<parentAlive, pcMain, gClientSock, cliFd, srvFd, pHoldsCli,
                 pHoldsSrv, chProc, immExited, backend, nCallbacks, dBytes, dLog, nRetries, monVars, sessVars>>
  /\ SettleChannel

\* Lines 113-116: for (i = 3; i < 512; ++i) if (i != srv_sock.fd()) close(i).
ScannedFds(tab, keep) ==
  [fd \in FdSet |->
     IF fd > STDERR_FILENO /\ fd < FdCeiling /\ fd # keep THEN "none"
     ELSE tab[fd]]

CloseInherited ==
  /\ ChildAlive /\ dPc = "closefds"
  /\ fds' = ScannedFds(fds, srvFd)
  /\ dPc' = "construct"
  /\ UNCHANGED <<parentAlive, pcMain, gClientSock, cliFd, srvFd, pHoldsCli,
                 pHoldsSrv, chProc, immExited, backend, nCallbacks, dBytes, dLog, nRetries, monVars, sessVars>>
  /\ SettleChannel

\* Lines 118-124: srv_sock.SetBlocking(false), the task runner, the watchdog
\* and the producer are constructed.
ConstructProducer ==
  /\ ChildAlive /\ dPc = "construct"
  /\ dPc' = "connect"
  /\ UNCHANGED <<parentAlive, bootVars, backend, nCallbacks, dBytes, dLog, nRetries,
                 chanVars, monVars, sessVars>>

\* Mutant of ConnectWithRetries: the call connects synchronously, the
\* connection is established when it returns.
ConnectWithRetriesBlocking ==
  /\ ChildAlive /\ dPc = "connect"
  /\ backend' = "connected"
  /\ dPc' = "setcb"
  /\ UNCHANGED <<parentAlive, bootVars, nCallbacks, dBytes, dLog, nRetries,
                 chanVars, monVars, sessVars>>

\* Line 125: producer.ConnectWithRetries(GetProducerSocket()).
ConnectWithRetries ==
  /\ ChildAlive /\ dPc = "connect"
  /\ backend' = "connecting"
  /\ dPc' = "setcb"
  /\ UNCHANGED <<parentAlive, bootVars, nCallbacks, dBytes, dLog, nRetries, chanVars,
                 monVars, sessVars>>

\* Line 127: producer.SetDataSourceCallback(...).
SetDataSourceCallback ==
  /\ ChildAlive /\ dPc = "setcb"
  /\ dPc' = "watch"
  /\ UNCHANGED <<parentAlive, bootVars, backend, nCallbacks, dBytes, dLog, nRetries,
                 chanVars, monVars, sessVars>>

\* Line 128: task_runner.AddFileDescriptorWatch(srv_sock.fd(), ...).
AddFileDescriptorWatch ==
  /\ ChildAlive /\ dPc = "watch"
  /\ dPc' = "run"
  /\ UNCHANGED <<parentAlive, bootVars, backend, nCallbacks, dBytes, dLog, nRetries,
                 chanVars, monVars, sessVars>>

\* Line 143: task_runner.Run().
Run ==
  /\ ChildAlive /\ dPc = "run"
  /\ dPc' = "loop"
  /\ UNCHANGED <<parentAlive, bootVars, backend, nCallbacks, dBytes, dLog, nRetries,
                 chanVars, monVars, sessVars>>

\* ------------------------------------------------- the daemon's event loop
\* The producer's connection to the tracing backend is established; the
\* producer starts over with its retries.
BackendConnected ==
  /\ ChildAlive /\ dPc = "loop" /\ backend = "connecting"
  /\ backend' = "connected"
  /\ nRetries' = 0
  /\ UNCHANGED <<parentAlive, bootVars, dPc, nCallbacks, dBytes, dLog,
                 chanVars, monVars, sessVars>>

\* The text of a line the daemon logs.
LogLine == <<"E", "\n">>

\* PERFETTO_LOG / PERFETTO_PLOG in the daemon write the line to descriptor 2:
\* when that number refers to the daemon's endpoint of the control channel
\* (the profiled process had it closed and CreatePair was given it), the text
\* is queued for the profiled process.
StderrWrite(q) ==
  IF fds[STDERR_FILENO] = "srv" /\ CliOpen THEN Append(q, Msg(LogLine, 0))
  ELSE q

\* An attempt of the producer to connect to the tracing backend fails: it is
\* logged and the producer goes on retrying.
BackendConnectFailed ==
  /\ ChildAlive /\ dPc = "loop" /\ backend = "connecting"
  /\ nRetries < MaxRetries
  /\ nRetries' = nRetries + 1
  /\ d2p' = StderrWrite(d2p)
  /\ UNCHANGED <<parentAlive, bootVars, dPc, backend, nCallbacks, dBytes,
                 dLog, p2d, pSockErr, dSockErr, monVars, sessVars>>

\* srv_sock.Send("x", 1) of line 127 puts the byte on the channel when srv_sock
\* is still the channel's endpoint and the peer endpoint is open.
MarkerSendOk == DaemonSockIsSrv /\ CliOpen

\* Line 127, the callback: the backend requests a data source and the daemon
\* sends one marker byte; the result of Send is not looked at.
DataSourceCallback ==
  /\ ChildAlive /\ dPc = "loop" /\ backend = "connected"
  /\ nCallbacks < MaxCallbacks
  /\ nCallbacks' = nCallbacks + 1
  /\ IF MarkerSendOk
     THEN d2p' = Append(d2p, Msg(<<"x">>, 0))
     ELSE UNCHANGED d2p
  /\ UNCHANGED <<parentAlive, bootVars, dPc, backend, dBytes, dLog, nRetries,
                 p2d, pSockErr, dSockErr, monVars, sessVars>>

\* The watch of line 128 fires when the descriptor srv_sock.fd() is readable:
\* data, a pending error or end of file on the socket; always, when the number
\* no longer refers to the socket.
WatchReady ==
  IF DaemonSockIsSrv THEN p2d # <<>> \/ dSockErr \/ ~CliOpen ELSE TRUE

\* What srv_sock.Receive(buf, 1, &fd, 1) of line 131 returns.
WatchResult ==
  IF ~DaemonSockIsSrv THEN "err"
  ELSE IF p2d # <<>> THEN "data"
  ELSE IF dSockErr THEN "err"
  ELSE "eof"

\* Mutant of AdoptReceived: the received descriptor is dropped, not adopted.
AdoptNothing(m) == UNCHANGED <<dSess, adopted>>

\* Lines 139-141: if (fd) producer.AdoptSocket(move(fd)).
AdoptReceived(m) ==
  IF m.fd \in Callers
  THEN /\ dSess' = [dSess EXCEPT ![m.fd] = TRUE]
       /\ adopted' = [adopted EXCEPT ![m.fd] = @ + 1]
  ELSE UNCHANGED <<dSess, adopted>>

\* Mutant of ControlWatch: the handler tests r <= 0, so a receive error ends
\* the daemon like a disconnect.
ControlWatchExitOnError ==
  /\ ChildAlive /\ dPc = "loop"
  /\ WatchReady
  /\ CASE WatchResult = "data" ->
            /\ p2d' = Tail(p2d)
            /\ dBytes' = dBytes + Len(Head(p2d).byte)
            /\ AdoptReceived(Head(p2d))
            /\ UNCHANGED <<dPc, immExited, dSockErr, d2p, pSockErr, dLog>>
       [] WatchResult \in {"err", "eof"} ->
            /\ dLog' = "Child disconnected."
            /\ dPc' = "exited"
            /\ immExited' = (immExited \/ chProc = "imm")
            /\ dSess' = [t \in Callers |-> FALSE]
            /\ UNCHANGED <<p2d, d2p, pSockErr, dSockErr, adopted, dBytes>>
  /\ UNCHANGED <<parentAlive, pcMain, gClientSock, fds, cliFd, srvFd,
                 pHoldsCli, pHoldsSrv, chProc, backend, nCallbacks, nRetries,
                 monVars, sPc, sLate, sResult, sendRes, pSrvFd, pCliSock,
                 reply>>

\* Lines 128-142, the handler of the control-channel watch.
ControlWatch ==
  /\ ChildAlive /\ dPc = "loop"
  /\ WatchReady
  /\ CASE WatchResult = "data" ->
            /\ p2d' = Tail(p2d)
            /\ dBytes' = dBytes + Len(Head(p2d).byte)
            /\ AdoptReceived(Head(p2d))
            /\ UNCHANGED <<dPc, immExited, dSockErr, d2p, pSockErr, dLog>>
       [] WatchResult = "err" ->
            /\ dSockErr' = FALSE
            /\ dLog' = "Receive"
            /\ d2p' = StderrWrite(d2p)
            /\ UNCHANGED <<dPc, immExited, p2d, pSockErr, dSess, adopted,
                           dBytes>>
       [] WatchResult = "eof" ->
            /\ dLog' = "Child disconnected."
            /\ dPc' = "exited"
            /\ immExited' = (immExited \/ chProc = "imm")
            /\ dSess' = [t \in Callers |-> FALSE]
            /\ UNCHANGED <<p2d, d2p, pSockErr, dSockErr, adopted, dBytes>>
  /\ UNCHANGED <<parentAlive, pcMain, gClientSock, fds, cliFd, srvFd,
                 pHoldsCli, pHoldsSrv, chProc, backend, nCallbacks, nRetries,
                 monVars, sPc, sLate, sResult, sendRes, pSrvFd, pCliSock,
                 reply>>

\* The daemon dies without being asked to (the watchdog started on line 121
\* crashes it on an exceedingly long task; a kill): all its descriptors go.
DaemonCrash ==
  /\ ChildAlive /\ dPc = "loop"
  /\ dPc' = "exited"
  /\ immExited' = (immExited \/ chProc = "imm")
  /\ dSess' = [t \in Callers |-> FALSE]
  /\ UNCHANGED <<parentAlive, pcMain, gClientSock, fds, cliFd, srvFd,
                 pHoldsCli, pHoldsSrv, chProc, backend, nCallbacks, dBytes, dLog, nRetries, monVars, sPc, sLate, sResult, sendRes, pSrvFd, pCliSock,
                 adopted, reply>>
  /\ SettleChannel

\* ---------------------------------------------------------------- MonitorFd
\* What g_client_sock->Receive(buf, 1) of line 55 returns once it returns:
\* queued data first, then a pending error, then end of file.
MonitorResult ==
  IF d2p # <<>> THEN "byte"
  ELSE IF pSockErr THEN "err"
  ELSE "eof"

\* The blocking Receive returns: there is data, an error, or no peer.
MonitorReady == d2p # <<>> \/ pSockErr \/ ~SrvOpen

\* Receive(buf, 1) on the stream takes one byte off the front of the queue.
TakeByte(q) ==
  IF Len(Head(q).byte) > 1
  THEN <<[Head(q) EXCEPT !.byte = Tail(@)]>> \o Tail(q)
  ELSE Tail(q)

\* Line 57: heapprofd_init_session(malloc, free).
InitSession == initSessions' = initSessions + 1

\* Mutant of MonitorRecv: the break of line 60 is missing, the loop goes on
\* after "Server disconneced.".
MonitorRecvNoBreak ==
  /\ parentAlive /\ mPc = "recv"
  /\ MonitorReady
  /\ CASE MonitorResult = "byte" ->
            /\ d2p' = TakeByte(d2p)
            /\ mReceived' = mReceived + 1
            /\ InitSession
            /\ UNCHANGED <<mPc, mLog, pSockErr>>
       [] MonitorResult = "err" ->
            /\ mLog' = "Receive failed."
            /\ pSockErr' = FALSE
            /\ UNCHANGED <<mPc, d2p, mReceived, initSessions>>
       [] MonitorResult = "eof" ->
            /\ mLog' = "Server disconneced."
            /\ UNCHANGED <<mPc, d2p, pSockErr, mReceived, initSessions>>
  /\ UNCHANGED <<parentAlive, bootVars, daemonVars, p2d, dSockErr, sessVars>>

\* Mutant of MonitorRecv: the loop tests r <= 0, so a receive error ends it.
MonitorRecvBreakOnError ==
  /\ parentAlive /\ mPc = "recv"
  /\ MonitorReady
  /\ CASE MonitorResult = "byte" ->
            /\ d2p' = TakeByte(d2p)
            /\ mReceived' = mReceived + 1
            /\ InitSession
            /\ UNCHANGED <<mPc, mLog, pSockErr>>
       [] MonitorResult \in {"err", "eof"} ->
            /\ mLog' = "Server disconneced."
            /\ mPc' = "exited"
            /\ pSockErr' = FALSE
            /\ UNCHANGED <<d2p, mReceived, initSessions>>
  /\ UNCHANGED <<parentAlive, bootVars, daemonVars, p2d, dSockErr, sessVars>>

\* Mutant of MonitorRecv: on a disconnect the monitor runs the bootstrap again.
MonitorRecvRebootstraps ==
  /\ parentAlive /\ mPc = "recv"
  /\ MonitorReady
  /\ CASE MonitorResult = "byte" ->
            /\ d2p' = TakeByte(d2p)
            /\ mReceived' = mReceived + 1
            /\ InitSession
            /\ UNCHANGED <<mPc, mLog, pSockErr, pcMain>>
       [] MonitorResult = "err" ->
            /\ mLog' = "Receive failed."
            /\ pSockErr' = FALSE
            /\ UNCHANGED <<mPc, d2p, mReceived, initSessions, pcMain>>
       [] MonitorResult = "eof" ->
            /\ mLog' = "Server disconneced."
            /\ mPc' = "exited"
            /\ pcMain' = "start"
            /\ UNCHANGED <<d2p, pSockErr, mReceived, initSessions>>
  /\ UNCHANGED <<parentAlive, gClientSock, fds, cliFd, srvFd, pHoldsCli,
                 pHoldsSrv, chProc, immExited, daemonVars, p2d, dSockErr,
                 sessVars>>

\* Lines 53-64: one iteration of the loop of MonitorFd.
MonitorRecv ==
  /\ parentAlive /\ mPc = "recv"
  /\ MonitorReady
  /\ CASE MonitorResult = "byte" ->
            /\ d2p' = TakeByte(d2p)
            /\ mReceived' = mReceived + 1
            /\ InitSession
            /\ UNCHANGED <<mPc, mLog, pSockErr>>
       [] MonitorResult = "err" ->
            /\ mLog' = "Receive failed."
            /\ pSockErr' = FALSE
            /\ UNCHANGED <<mPc, d2p, mReceived, initSessions>>
       [] MonitorResult = "eof" ->
            /\ mLog' = "Server disconneced."
            /\ mPc' = "exited"
            /\ UNCHANGED <<d2p, pSockErr, mReceived, initSessions>>
  /\ UNCHANGED <<parentAlive, bootVars, daemonVars, p2d, dSockErr, sessVars>>

\* ----------------------------------------------------------- ConstructClient
\* Calls are numbered in the order in which they start.
MayStart(t) == IF t = 1 THEN TRUE ELSE sPc[t - 1] # "idle"

\* Mutant of CreateSessionPair: the pair is checked only after the descriptor
\* was handed to Send, so a failed creation still puts a byte on the channel.
CreateSessionPairSendsFirst(t) ==
  /\ parentAlive /\ pcMain = "returned"
  /\ sPc[t] = "idle" /\ MayStart(t)
  /\ \E ok \in BOOLEAN :
       IF ok
       THEN /\ pSrvFd' = [pSrvFd EXCEPT ![t] = TRUE]
            /\ pCliSock' = [pCliSock EXCEPT ![t] = TRUE]
            /\ sPc' = [sPc EXCEPT ![t] = "send"]
            /\ UNCHANGED <<sResult, p2d>>
       ELSE /\ sResult' = [sResult EXCEPT ![t] = "null"]
            /\ sPc' = [sPc EXCEPT ![t] = "done"]
            /\ p2d' = IF gClientSock = "valid" /\ SrvOpen
                      THEN Append(p2d, Msg(<<" ">>, 0)) ELSE p2d
            /\ UNCHANGED <<pSrvFd, pCliSock>>
  /\ sLate' = [sLate EXCEPT ![t] = (dPc = "exited")]
  /\ UNCHANGED <<parentAlive, bootVars, daemonVars, d2p, pSockErr, dSockErr,
                 monVars, sendRes, dSess, adopted, reply>>

\* Mutant of CreateSessionPair: the handshake is started right after the pair
\* is created, the Send of line 166 is left out.
CreateSessionPairSkipsSend(t) ==
  /\ parentAlive /\ pcMain = "returned"
  /\ sPc[t] = "idle" /\ MayStart(t)
  /\ \E ok \in BOOLEAN :
       IF ok
       THEN /\ pSrvFd' = [pSrvFd EXCEPT ![t] = TRUE]
            /\ pCliSock' = [pCliSock EXCEPT ![t] = TRUE]
            /\ sPc' = [sPc EXCEPT ![t] = "handshake"]
            /\ UNCHANGED sResult
       ELSE /\ sResult' = [sResult EXCEPT ![t] = "null"]
            /\ sPc' = [sPc EXCEPT ![t] = "done"]
            /\ UNCHANGED <<pSrvFd, pCliSock>>
  /\ sLate' = [sLate EXCEPT ![t] = (dPc = "exited")]
  /\ UNCHANGED <<parentAlive, bootVars, daemonVars, chanVars, monVars,
                 sendRes, dSess, adopted, reply>>

\* Lines 150-162: CreatePair for the session; on failure log, return nullptr.
CreateSessionPair(t) ==
  /\ parentAlive /\ pcMain = "returned"
  /\ sPc[t] = "idle" /\ MayStart(t)
  /\ \E ok \in BOOLEAN :
       IF ok
       THEN /\ pSrvFd' = [pSrvFd EXCEPT ![t] = TRUE]
            /\ pCliSock' = [pCliSock EXCEPT ![t] = TRUE]
            /\ sPc' = [sPc EXCEPT ![t] = "send"]
            /\ UNCHANGED sResult
       ELSE /\ sResult' = [sResult EXCEPT ![t] = "null"]
            /\ sPc' = [sPc EXCEPT ![t] = "done"]
            /\ UNCHANGED <<pSrvFd, pCliSock>>
  /\ sLate' = [sLate EXCEPT ![t] = (dPc = "exited")]
  /\ UNCHANGED <<parentAlive, bootVars, daemonVars, chanVars, monVars,
                 sendRes, dSess, adopted, reply>>

\* g_client_sock->Send(" ", 1, &fd, 1) of line 166 succeeds when g_client_sock
\* has a descriptor and the server endpoint is open somewhere.
SessionSendOk == gClientSock = "valid" /\ SrvOpen

\* Mutant of SendDescriptor: the byte and the descriptor go out in two Sends.
SendDescriptorSplit(t) ==
  /\ parentAlive /\ sPc[t] = "send"
  /\ IF gClientSock = "valid" /\ SrvOpen
     THEN /\ p2d' = p2d \o <<Msg(<<" ">>, 0), Msg(<<>>, t)>>
          /\ sendRes' = [sendRes EXCEPT ![t] = "ok"]
     ELSE /\ sendRes' = [sendRes EXCEPT ![t] = "fail"]
          /\ UNCHANGED p2d
  /\ sPc' = [sPc EXCEPT ![t] = "handshake"]
  /\ UNCHANGED <<parentAlive, bootVars, daemonVars, d2p, pSockErr, dSockErr,
                 monVars, sLate, sResult, pSrvFd, pCliSock, dSess, adopted, reply>>

\* Lines 163-166: srv_fd = srv_session_sock.ReleaseFd(); the byte and the
\* descriptor go out as one message; the result of Send is not looked at.
SendDescriptor(t) ==
  /\ parentAlive /\ sPc[t] = "send"
  /\ IF SessionSendOk
     THEN /\ p2d' = Append(p2d, Msg(<<" ">>, t))
          /\ sendRes' = [sendRes EXCEPT ![t] = "ok"]
     ELSE /\ sendRes' = [sendRes EXCEPT ![t] = "fail"]
          /\ UNCHANGED p2d
  /\ sPc' = [sPc EXCEPT ![t] = "handshake"]
  /\ UNCHANGED <<parentAlive, bootVars, daemonVars, d2p, pSockErr, dSockErr,
                 monVars, sLate, sResult, pSrvFd, pCliSock, dSess, adopted, reply>>

\* Some process, or a message in flight, holds the daemon-bound end of the
\* session channel of call t.
SessSrvOpen(t) == (parentAlive /\ pSrvFd[t]) \/ InFlight(t) \/ dSess[t]

\* Mutant of ReturnFromCall: srv_fd is a plain int, nothing closes it.
ReturnFromCallKeepsFd(t, r) ==
  /\ sResult' = [sResult EXCEPT ![t] = r]
  /\ sPc' = [sPc EXCEPT ![t] = "done"]
  /\ pCliSock' = [pCliSock EXCEPT ![t] = (r = "client")]
  /\ UNCHANGED pSrvFd

\* Lines 167-169, the return of ConstructClient with result r: srv_fd goes out
\* of scope (the parent's copy of the daemon-bound end is closed); a failed
\* handshake also destroys the retained end.
ReturnFromCall(t, r) ==
  /\ sResult' = [sResult EXCEPT ![t] = r]
  /\ sPc' = [sPc EXCEPT ![t] = "done"]
  /\ pSrvFd' = [pSrvFd EXCEPT ![t] = FALSE]
  /\ pCliSock' = [pCliSock EXCEPT ![t] = (r = "client")]

\* Line 167, Client::CreateAndHandshake fails before it talks to the peer.
HandshakeFail(t) ==
  /\ parentAlive /\ sPc[t] = "handshake"
  /\ ReturnFromCall(t, "null")
  /\ UNCHANGED <<parentAlive, bootVars, daemonVars, chanVars, monVars,
                 sLate, sendRes, dSess, adopted, reply>>

\* Line 167, Client::CreateAndHandshake writes its request on the retained
\* end of the session channel.
HandshakeSend(t) ==
  /\ parentAlive /\ sPc[t] = "handshake"
  /\ IF SessSrvOpen(t)
     THEN /\ sPc' = [sPc EXCEPT ![t] = "hs_recv"]
          /\ UNCHANGED <<sResult, pSrvFd, pCliSock>>
     ELSE ReturnFromCall(t, "null")
  /\ UNCHANGED <<parentAlive, bootVars, daemonVars, chanVars, monVars,
                 sLate, sendRes, dSess, adopted, reply>>

\* The blocking receive of the handshake returns: with the daemon's answer, or
\* with end of file once nothing holds the other end.
HandshakeReady(t) == reply[t] \/ ~SessSrvOpen(t)

\* Line 167, Client::CreateAndHandshake receives the answer and returns.
HandshakeRecv(t) ==
  /\ parentAlive /\ sPc[t] = "hs_recv"
  /\ HandshakeReady(t)
  /\ ReturnFromCall(t, IF reply[t] THEN "client" ELSE "null")
  /\ UNCHANGED <<parentAlive, bootVars, daemonVars, chanVars, monVars,
                 sLate, sendRes, dSess, adopted, reply>>

\* The producer, on the adopted socket, answers the handshake request that
\* call t has written and is waiting on.
DaemonReply(t) ==
  /\ ChildAlive /\ dPc = "loop"
  /\ dSess[t] /\ sPc[t] = "hs_recv" /\ ~reply[t]
  /\ reply' = [reply EXCEPT ![t] = TRUE]
  /\ UNCHANGED <<parentAlive, bootVars, daemonVars, chanVars, monVars, sPc,
                 sLate, sResult, sendRes, pSrvFd, pCliSock, dSess, adopted>>

\* The producer closes an adopted socket (rejected or finished session).
DaemonDropSession(t) ==
  /\ ChildAlive /\ dPc = "loop"
  /\ dSess[t]
  /\ dSess' = [dSess EXCEPT ![t] = FALSE]
  /\ UNCHANGED <<parentAlive, bootVars, daemonVars, chanVars, monVars, sPc,
                 sLate, sResult, sendRes, pSrvFd, pCliSock, adopted, reply>>

\* ------------------------------------------------------------ environment
\* The profiled process exits: all its descriptors are closed, its threads end.
ParentExit ==
  /\ parentAlive /\ pcMain = "returned"
  /\ parentAlive' = FALSE
  /\ pHoldsCli' = FALSE /\ pHoldsSrv' = FALSE
  /\ pSrvFd' = [t \in Callers |-> FALSE]
  /\ pCliSock' = [t \in Callers |-> FALSE]
  /\ UNCHANGED <<pcMain, gClientSock, fds, cliFd, srvFd, chProc, immExited,
                 daemonVars, monVars, sPc, sLate, sResult, sendRes, dSess, adopted, reply>>
  /\ SettleChannel

Next ==
  \/ CreateControlPair
  \/ Fork
  \/ WaitpidReturn
  \/ Daemonize
  \/ ReleaseCli
  \/ RedirectStdio
  \/ CloseInherited
  \/ ConstructProducer
  \/ ConnectWithRetries
  \/ SetDataSourceCallback
  \/ AddFileDescriptorWatch
  \/ Run
  \/ BackendConnected
  \/ BackendConnectFailed
  \/ DataSourceCallback
  \/ ControlWatch
  \/ DaemonCrash
  \/ MonitorRecv
  \/ \E t \in Callers : CreateSessionPair(t)
  \/ \E t \in Callers : SendDescriptor(t)
  \/ \E t \in Callers : HandshakeFail(t)
  \/ \E t \in Callers : HandshakeSend(t)
  \/ \E t \in Callers : HandshakeRecv(t)
  \/ \E t \in Callers : DaemonReply(t)
  \/ \E t \in Callers : DaemonDropSession(t)
  \/ ParentExit

Spec == Init /\ [][Next]_vars

\* ------------------------------------------------------------ properties
RECURSIVE SumTo(_, _)
SumTo(f, n) == IF n = 0 THEN 0 ELSE f[n] + SumTo(f, n - 1)

\* Descriptors the daemon handler has handed to AdoptSocket, all calls together.
TotalAdopted == SumTo(adopted, NumCallers)

\* Call t is between its CreatePair and its return.
Running(t) == sPc[t] \in {"send", "handshake", "hs_recv"}

\* Call t created its session channel pair.
PairCreated(t) == sPc[t] # "idle" /\ ~(sPc[t] = "done" /\ sendRes[t] = "none")

\* Call t sits in the handshake's blocking receive, which cannot return.
Blocked(t) == sPc[t] = "hs_recv" /\ ~HandshakeReady(t)

\* The bootstrap of ForkHeapprofd succeeded / failed, seen from the parent.
BootstrapOk == pcMain = "returned" /\ gClientSock = "valid"
BootstrapFailed == pcMain = "returned" /\ gClientSock = "invalid"

C2_ExactlyOneAlways ==
  \A t \in Callers :
    (sPc[t] = "done" /\ PairCreated(t) /\ ~InFlight(t)) => adopted[t] = 1

\* C2 amended: the daemon receives at most one descriptor per call and none
\* from a call whose Send failed; a call whose Send succeeded has had exactly
\* one received once its message is no longer in flight, as long as the
\* daemon's endpoint of the control channel is open.
C2_OnePerDeliveredSend ==
  \A t \in Callers :
    /\ adopted[t] <= 1
    /\ (sendRes[t] # "ok" => adopted[t] = 0)
    /\ (sendRes[t] = "ok" /\ ~InFlight(t) /\ SrvOpen => adopted[t] = 1)

\* C2 witness: a call has returned with a failed handshake and the daemon has
\* received exactly one descriptor of it.
C2_Witness ==
  \E t \in Callers :
    sPc[t] = "done" /\ sResult[t] = "null" /\ sendRes[t] = "ok"
      /\ adopted[t] = 1 /\ SrvOpen

C4_LateCallFailsFast ==
  \A t \in Callers :
    (sLate[t] /\ parentAlive) =>
      /\ ~Blocked(t)
      /\ (sPc[t] = "done" => sResult[t] = "null")

\* A call blocked after the daemon has exited stays blocked for as long as the
\* profiled process lives: nothing can answer and srv_fd keeps the other end
\* of its own session channel open.
C4_BlockedForGood ==
  [][\A t \in Callers :
       (Blocked(t) /\ sLate[t] /\ parentAlive) =>
         (Blocked(t)' \/ ~parentAlive')]_vars

\* The step is an iteration of MonitorFd's loop.
MonitorStepped ==
  \/ mReceived' # mReceived
  \/ mPc' # mPc
  \/ mLog' # mLog
  \/ (pSockErr /\ ~pSockErr')

\* C5 as claimed: once the daemon's endpoint of the control channel is closed,
\* the next receive of MonitorFd ends the loop, whether it observes 0 bytes or
\* an error.
C5_NextReceiveEndsLoop ==
  [][(parentAlive /\ mPc = "recv" /\ ~SrvOpen /\ MonitorStepped) =>
       mPc' = "exited"]_vars

\* C5 amended: once the daemon's endpoint is closed, a receive of MonitorFd
\* that finds a marker byte still queued starts a session and goes on, one that
\* observes an error logs "Receive failed." and receives again, and the one
\* that observes 0 bytes logs "Server disconneced." and ends the loop; the
\* loop ends no other way.
C5_LoopEndsOnZeroBytes ==
  [][(parentAlive /\ mPc = "recv" /\ MonitorStepped) =>
       IF d2p # <<>>
       THEN mPc' = "recv" /\ initSessions' = initSessions + 1
       ELSE IF pSockErr
       THEN mPc' = "recv" /\ mLog' = "Receive failed." /\ ~pSockErr'
       ELSE ~SrvOpen /\ mPc' = "exited" /\ mLog' = "Server disconneced."]_vars

\* C5 witness: the daemon has died and MonitorFd has left its loop.
C5_Witness ==
  /\ parentAlive /\ dPc = "exited"
  /\ mPc = "exited" /\ mLog = "Server disconneced."

\* C6 as claimed: with the bootstrap succeeded and both processes alive, every
\* data-source callback fired so far put a marker byte on the channel (it is
\* queued for MonitorFd or was received by it), and MonitorFd called
\* heapprofd_init_session once for each byte it received.
C6_NoSignalLost ==
  (parentAlive /\ BootstrapOk /\ ChildAlive) =>
    /\ nCallbacks = mReceived + Len(d2p)
    /\ initSessions >= mReceived

\* C7 as claimed: after a successful bootstrap, once the daemon has closed its
\* copy of the client endpoint, the profiled process holds the client endpoint
\* and not the server endpoint, and the daemon holds the server endpoint, under
\* one descriptor, and not the client endpoint.
C7_OneEndpointEach ==
  (parentAlive /\ BootstrapOk /\ ChildAlive
     /\ dPc \notin {"daemon", "release"}) =>
    /\ pHoldsCli /\ ~pHoldsSrv
    /\ ~ChildHolds(fds, "cli")
    /\ Cardinality({fd \in FdSet : fds[fd] = "srv"}) = 1

\* C8 as claimed: while a session is being established, its daemon-bound
\* endpoint is held by the profiled process or by the daemon (or travels in a
\* message), never by both processes.
C8_OneOwner ==
  \A t \in Callers :
    /\ ~(parentAlive /\ pSrvFd[t] /\ dSess[t])
    /\ ((parentAlive /\ Running(t)) => SessSrvOpen(t))

\* C10 as claimed: after a failed bootstrap there is no daemon and no monitor
\* thread, and a ConstructClient call neither sends to anyone nor hangs.
C10_FailedBootstrapHarmless ==
  (parentAlive /\ BootstrapFailed) =>
    /\ chProc = "none" /\ mPc = "none"
    /\ p2d = <<>>
    /\ \A t \in Callers : sendRes[t] # "ok" /\ ~Blocked(t)

\* ---------------------------------------------------------------- fairness
\* Every step of the program is taken if it stays possible. No fairness for
\* what the environment decides: the backend connecting or asking for a data
\* source, a crash of the daemon, the exit of the profiled process, a new
\* call of ConstructClient, the producer answering or closing a session.
Fairness ==
  /\ WF_vars(CreateControlPair)
  /\ WF_vars(Fork)
  /\ WF_vars(WaitpidReturn)
  /\ WF_vars(Daemonize)
  /\ WF_vars(ReleaseCli)
  /\ WF_vars(RedirectStdio)
  /\ WF_vars(CloseInherited)
  /\ WF_vars(ConstructProducer)
  /\ WF_vars(ConnectWithRetries)
  /\ WF_vars(SetDataSourceCallback)
  /\ WF_vars(AddFileDescriptorWatch)
  /\ WF_vars(Run)
  /\ WF_vars(ControlWatch)
  /\ WF_vars(MonitorRecv)
  /\ \A t \in Callers :
       WF_vars(SendDescriptor(t) \/ HandshakeSend(t) \/ HandshakeRecv(t))

FairSpec == Init /\ [][Next]_vars /\ Fairness

\* C9 as claimed: in the profiled process ForkHeapprofd always returns: once
\* it waits for the immediate child, it eventually returns to its caller.
C9_ForkHeapprofdReturns == (pcMain = "waitpid") ~> (pcMain = "returned")

\* The child path has passed the closing scan of lines 113-116 (it is at or
\* after the construction of the producer).
AfterScan == {"construct", "connect", "setcb", "watch", "run", "loop"}

\* A call that started before call t has returned without a client.
EarlierSessionFailed(t) ==
  \E u \in Callers : u < t /\ sPc[u] = "done" /\ sResult[u] = "null"

\* C11 as claimed: after an earlier session has failed, as long as the bootstrap
\* succeeded and the daemon is alive, MonitorFd is still in its loop, the Send
\* of a later call does not fail, and once its message is out of the queue the
\* daemon has adopted its descriptor.
C11_LaterSessionsUnaffected ==
  \A t \in Callers :
    (parentAlive /\ BootstrapOk /\ ChildAlive /\ EarlierSessionFailed(t)) =>
      /\ mPc = "recv"
      /\ sendRes[t] # "fail"
      /\ (sendRes[t] = "ok" /\ ~InFlight(t) => adopted[t] = 1)

\* The step is a run of the handler of the control-channel watch.
HandlerStepped ==
  /\ dPc = "loop"
  /\ dBytes' # dBytes \/ dLog' # dLog \/ (dSockErr /\ ~dSockErr')

\* C12: a step of the watch handler ends the daemon exactly when its receive
\* returns zero length; a receive error and a failed attempt to connect to the
\* backend leave the daemon in its event loop; the daemon's code leaves the
\* loop in no other way (what remains is a crash); and a descriptor is adopted
\* only by the handler, from a message that carried one.
C12_ExitsOnlyOnDisconnect ==
  [][/\ HandlerStepped =>
          /\ WatchReady
          /\ dPc' = (IF WatchResult = "eof" THEN "exited" ELSE "loop")
     /\ nRetries' > nRetries => (dPc' = "loop" /\ adopted' = adopted)
     /\ (dPc = "loop" /\ dPc' = "exited" /\ ~HandlerStepped) => DaemonCrash
     /\ adopted' # adopted =>
          /\ HandlerStepped /\ WatchResult = "data"
          /\ Head(p2d).fd \in Callers
          /\ adopted' = [adopted EXCEPT ![Head(p2d).fd] = @ + 1]]_vars

\* C12 witness: the handler has logged a receive error, an attempt to connect
\* to the backend has failed, and the daemon is in its event loop.
C12_Witness == dPc = "loop" /\ dLog = "Receive" /\ nRetries > 0

\* C13 as claimed: once the child path is past the closing scan, descriptors 0
\* and 1 refer to the null device and, apart from descriptor 2, the only open
\* descriptor is the one of srv_sock: nothing else of the profiled process is
\* held.
C13_OnlyStderrAndChannelKept ==
  (ChildAlive /\ dPc \in AfterScan) =>
    /\ fds[STDIN_FILENO] = "null" /\ fds[STDOUT_FILENO] = "null"
    /\ \A fd \in FdSet \ {STDIN_FILENO, STDOUT_FILENO, STDERR_FILENO} :
         fds[fd] = "none" \/ (fds[fd] = "srv" /\ fd = srvFd)

\* C14: an iteration of MonitorFd whose receive fails logs "Receive failed."
\* and stays in the loop, does not call heapprofd_init_session and leaves
\* g_client_sock and its descriptor as they were.
C14_ReceiveErrorRetried ==
  [][(parentAlive /\ mPc = "recv" /\ d2p = <<>> /\ pSockErr
        /\ MonitorStepped) =>
       /\ mPc' = "recv"
       /\ mLog' = "Receive failed."
       /\ initSessions' = initSessions /\ mReceived' = mReceived
       /\ gClientSock' = gClientSock /\ pHoldsCli' = pHoldsCli]_vars

\* C14 witness: MonitorFd has logged a receive error and is in its loop.
C14_Witness == parentAlive /\ mPc = "recv" /\ mLog = "Receive failed."

\* C15: once MonitorFd has left its loop it stays out of it, calls
\* heapprofd_init_session no more, ForkHeapprofd does not run again and no
\* new process takes up the child path.
C15_MonitorExitIsFinal ==
  [][mPc = "exited" =>
       /\ mPc' = "exited"
       /\ initSessions' = initSessions /\ mReceived' = mReceived
       /\ pcMain' = pcMain /\ gClientSock' = gClientSock
       /\ chProc' = chProc
       /\ (dPc = "exited" => dPc' = "exited")]_vars

\* C15 witness: MonitorFd has left its loop and a call of ConstructClient made
\* after the daemon's exit has returned.
C15_Witness ==
  /\ parentAlive /\ mPc = "exited"
  /\ \E t \in Callers : sLate[t] /\ sPc[t] = "done"

\* C16: a call is in its handshake only after its Send has returned, and the
\* daemon holds or has answered on a session descriptor only of a call whose
\* Send succeeded; before the Send nothing of the call is queued or adopted.
C16_SendBeforeHandshake ==
  \A t \in Callers :
    /\ sPc[t] \in {"handshake", "hs_recv"} => sendRes[t] # "none"
    /\ (dSess[t] \/ reply[t] \/ adopted[t] > 0) => sendRes[t] = "ok"
    /\ sPc[t] \in {"idle", "send"} =>
         (sendRes[t] = "none" /\ ~InFlight(t) /\ adopted[t] = 0)

\* C16 witness: a call waits in its handshake, the daemon holds its descriptor
\* and has answered.
C16_Witness ==
  \E t \in Callers :
    sPc[t] = "hs_recv" /\ sendRes[t] = "ok" /\ dSess[t] /\ reply[t]

\* C17 as claimed: every message queued for the profiled process is the marker
\* byte "x" without descriptor, at most one per data-source callback; every
\* message queued for the daemon is the marker byte " " with the descriptor of
\* one call, at most one per call.
C17_OnlyMarkerMessages ==
  /\ \A i \in 1..Len(d2p) : d2p[i] = Msg(<<"x">>, 0)
  /\ mReceived + Len(d2p) <= nCallbacks
  /\ \A i \in 1..Len(p2d) : p2d[i].byte = <<" ">> /\ p2d[i].fd \in Callers
  /\ \A i, j \in 1..Len(p2d) : p2d[i].fd = p2d[j].fd => i = j

\* C18: a call that has returned holds no srv_fd, whatever the outcome of its
\* Send and of its handshake: the profiled process holds the daemon-bound
\* descriptor only of calls that are between CreatePair and their return.
C18_SenderCopyReleased ==
  \A t \in Callers :
    /\ sPc[t] = "done" => ~pSrvFd[t]
    /\ pSrvFd[t] => (parentAlive /\ Running(t))

\* C18 witness: one call has returned a client and another, whose pair was
\* created, has returned null.
C18_Witness ==
  /\ parentAlive
  /\ \E t, u \in Callers :
       /\ sPc[t] = "done" /\ sResult[t] = "client"
       /\ sPc[u] = "done" /\ sResult[u] = "null" /\ sendRes[u] # "none"

\* C19 as claimed: once the child path is past the redirection and the closing
\* scan, the descriptor of srv_sock still refers to the daemon's endpoint of
\* the control channel.
C19_ChannelSurvivesSetup ==
  (ChildAlive /\ dPc \in AfterScan) => DaemonSockIsSrv

\* The step is the dispatch of a backend event or of a control-channel event
\* in the daemon.
Dispatched ==
  \/ (backend = "connecting" /\ backend' = "connected")
  \/ nCallbacks' # nCallbacks
  \/ nRetries' # nRetries
  \/ dBytes' # dBytes
  \/ adopted' # adopted
  \/ dLog' # dLog

\* C20: the daemon dispatches an event only in its event loop, which it enters
\* after the callback and the watch are registered; the connection to the
\* backend is started before the callback is set; and from the construction of
\* the producer to the start of the loop nothing queued for the daemon is taken
\* off the queue.
C20_NoDispatchBeforeRun ==
  [][/\ Dispatched => dPc = "loop"
     /\ dPc' = "loop" => dPc \in {"run", "loop"}
     /\ dPc' = "run" => dPc \in {"watch", "run"}
     /\ dPc' = "watch" => dPc \in {"setcb", "watch"}
     /\ dPc' \in {"setcb", "watch", "run"} => backend' = "connecting"
     /\ (ChildAlive /\ dPc \in AfterScan \ {"loop"}) =>
          /\ Len(p2d') >= Len(p2d)
          /\ SubSeq(p2d', 1, Len(p2d)) = p2d]_vars

\* C20 witness: both registrations are done, the loop has not started, and a
\* session descriptor is queued for the daemon.
C20_Witness ==
  /\ ChildAlive /\ dPc = "run"
  /\ p2d # <<>> /\ backend = "connecting"

====
